---------------------------- MODULE Spec2Model ----------------------------
(***************************************************************************)
(* FreeSwapP2P: the balance-triggered responder of IotaWallet.py and the   *)
(* session/auth layer of FreeSwapP2P.py.                                   *)
(*                                                                         *)
(* Amounts.  The responder computes with Python floats, IEEE-754 doubles.  *)
(* The model holds every float as the exact value of the double and       *)
(* rounds each operation the way the hardware does (see "Python floats"    *)
(* below).  "n grid units" is the decimal n * 1e-8, the precision of       *)
(* round(x, 8); the ledger counts raw units, read through float().         *)
(***************************************************************************)
EXTENDS Integers, Sequences, FiniteSets, Bags, TLC

VARIABLES
    \* ---- responder_transaction_with_self_sent_adjustment: parameters
    max_amount_received, max_response_amount, divisor,
    received_token_id, response_token_id,
    \* ---- responder locals
    starting_balance, total_received, total_responded, response_amounts,
    idx, net_increment, pc,
    \* ---- the ledger the wallet library talks to (watched asset, raw units)
    ledger,
    \* ---- observation of the run: transfers handed to send_transaction_any,
    \*      whether an external payment arrived since the last balance read,
    \*      the number of reads that saw one, whether the last transfer took
    \*      funds out of the watched balance, and what happened at the last
    \*      balance read
    transfers, fresh, receiptPolls, selfPaid, last,
    \* ---- HTTP layer: _SESSIONS, the vault files on disk and the account
    \*      folders that hold them, the calls that are inside the wallet
    \*      library, whether two calls of the vault functions were ever in
    \*      flight together, tokens generated so far, tokens presented to a
    \*      successful logout, last response
    SESSIONS, vaults, folders, inflight, overlapped, issued, revoked, response

respVars == <<max_amount_received, max_response_amount, divisor,
              received_token_id, response_token_id,
              starting_balance, total_received, total_responded,
              response_amounts, idx, net_increment, pc, ledger,
              transfers, fresh, receiptPolls, selfPaid, last>>
httpVars == <<SESSIONS, vaults, folders, inflight, overlapped, issued,
              revoked, response>>
vars == <<respVars, httpVars>>

-----------------------------------------------------------------------------
(* Program constants *)

\* 1e-6 (one micro-unit) in grid units of 1e-8
GridPerMicro == 100

(* Bounds of the model *)

\* max_response_amount is m micro-units, 1 <= m <= MaxTargetMicros
MaxTargetMicros == 1
MaxDivisor == 2
\* max_amount_received, in raw ledger units
MaxCap == 1
\* watched balance on the ledger when the responder starts
MaxStart == 1
\* external payments, of one raw ledger unit each: how many
MaxDeposits == 1
\* base coins an output carrying a native token takes with it as its
\* storage deposit: the wallet library sets the amount, 1..MaxStorageDeposit
\* raw units
MaxStorageDeposit == 1
\* schedule construction checked on its own: targets in grid units, chunks
MaxScheduleTarget == 250
MaxScheduleDivisor == 9
\* the responder paying out dust: targets of a few grid units (1e-8 of a
\* unit each) cut into more chunks than the target has grid units
MaxDustTarget == 2
MaxDustDivisor == 4

\* session tokens secrets.token_urlsafe can hand out
MaxTokens == 2
\* body.amount of /api/send ranges over -1..MaxAmount
MaxAmount == 1
\* the available balance the library reports to /api/balance is 6 * k
\* micro-units, k <= MaxBalance (one and two digits)
MaxBalance == 2
\* requests to /api/balance, /api/address and /api/send that are served at
\* the same time: at most this many
MaxRequests == 1
\* calls of CreateWallet, RecoverWallet and CreateWalletTest that run at
\* the same time: at most this many
MaxVaultCalls == 2

NoToken == "None"
TokenIds == {NoToken, "tokA"}

-----------------------------------------------------------------------------
(* Python floats.  A float of the program is an IEEE-754 double.  The model *)
(* holds a double exactly, as a sign and a magnitude counted in units of    *)
(* 2^-FracBits and written in limbs of LimbBits bits, least significant     *)
(* first, without leading zero limbs.  Every double the responder meets    *)
(* (amounts of 1e-9 and more, balances up to about 1e12, and differences    *)
(* of such) is a whole number of those units.  An operation is computed     *)
(* exactly and then rounded to 53 significant bits, ties to even, as the    *)
(* hardware does.                                                           *)

LimbBits == 20
Base == 2 ^ LimbBits
FracLimbs == 5
FracBits == FracLimbs * LimbBits
MantissaBits == 53

Max2(a, b) == IF a >= b THEN a ELSE b

Limb(m, i) == IF i >= 1 /\ i <= Len(m) THEN m[i] ELSE 0

RECURSIVE MTrim(_)
MTrim(m) ==
    IF m = <<>> THEN <<>>
    ELSE IF m[Len(m)] = 0 THEN MTrim(SubSeq(m, 1, Len(m) - 1))
    ELSE m

\* -1, 0 or 1 as a < b, a = b, a > b, comparing limbs i, i-1, ..., 1
RECURSIVE MCmpFrom(_, _, _)
MCmpFrom(a, b, i) ==
    IF i = 0 THEN 0
    ELSE IF Limb(a, i) > Limb(b, i) THEN 1
    ELSE IF Limb(a, i) < Limb(b, i) THEN -1
    ELSE MCmpFrom(a, b, i - 1)

MCmp(a, b) == MCmpFrom(a, b, Max2(Len(a), Len(b)))

RECURSIVE MAddFrom(_, _, _, _)
MAddFrom(a, b, i, carry) ==
    IF i > Max2(Len(a), Len(b))
    THEN IF carry = 0 THEN <<>> ELSE <<carry>>
    ELSE LET s == Limb(a, i) + Limb(b, i) + carry
         IN  <<s % Base>> \o MAddFrom(a, b, i + 1, s \div Base)

MAdd(a, b) == MAddFrom(a, b, 1, 0)

\* a - b for a >= b
RECURSIVE MSubFrom(_, _, _, _)
MSubFrom(a, b, i, borrow) ==
    IF i > Len(a) THEN <<>>
    ELSE LET d == Limb(a, i) - Limb(b, i) - borrow
         IN  IF d < 0 THEN <<d + Base>> \o MSubFrom(a, b, i + 1, 1)
             ELSE <<d>> \o MSubFrom(a, b, i + 1, 0)

MSub(a, b) == MTrim(MSubFrom(a, b, 1, 0))

\* a * k for a small k (k * Base below 2^31)
RECURSIVE MMulFrom(_, _, _, _)
MMulFrom(a, k, i, carry) ==
    IF i > Len(a)
    THEN IF carry = 0 THEN <<>> ELSE <<carry>>
    ELSE LET p == a[i] * k + carry
         IN  <<p % Base>> \o MMulFrom(a, k, i + 1, p \div Base)

MMulSmall(a, k) == IF k = 0 THEN <<>> ELSE MMulFrom(a, k, 1, 0)

\* quotient and remainder of a by a small k, limbs i, i-1, ..., 1, with the
\* remainder r of the limbs above
RECURSIVE MDivFrom(_, _, _, _)
MDivFrom(a, k, i, r) ==
    IF i = 0 THEN [q |-> <<>>, r |-> r]
    ELSE LET cur  == r * Base + a[i]
             rest == MDivFrom(a, k, i - 1, cur % k)
         IN  [q |-> Append(rest.q, cur \div k), r |-> rest.r]

MDivSmall(a, k) ==
    LET d == MDivFrom(a, k, Len(a), 0)
    IN  [q |-> MTrim(d.q), r |-> d.r]

LimbBitLen(x) ==
    CHOOSE n \in 0..LimbBits : x < 2 ^ n /\ (n = 0 \/ x >= 2 ^ (n - 1))

MBitLen(m) ==
    IF m = <<>> THEN 0
    ELSE (Len(m) - 1) * LimbBits + LimbBitLen(m[Len(m)])

\* bit j of m, the least significant bit being bit 0
BitAt(m, j) == (Limb(m, (j \div LimbBits) + 1) \div 2 ^ (j % LimbBits)) % 2

\* bits 0 .. j-1 of m are all zero
LowBitsZero(m, j) ==
    /\ \A i \in 1..(j \div LimbBits) : Limb(m, i) = 0
    /\ Limb(m, (j \div LimbBits) + 1) % 2 ^ (j % LimbBits) = 0

\* m with its bits 0 .. j-1 cleared
ClearLow(m, j) ==
    MTrim([i \in 1..Len(m) |->
            IF i <= j \div LimbBits THEN 0
            ELSE IF i = (j \div LimbBits) + 1
            THEN m[i] - (m[i] % 2 ^ (j % LimbBits))
            ELSE m[i]])

\* the magnitude 2^j
PowerOfTwo(j) ==
    [i \in 1..((j \div LimbBits) + 1) |->
        IF i = (j \div LimbBits) + 1 THEN 2 ^ (j % LimbBits) ELSE 0]

\* m rounded to MantissaBits significant bits, ties to even; sticky tells
\* that the exact value lies strictly above m (a remainder was dropped)
MRound(m, sticky) ==
    LET d == MBitLen(m) - MantissaBits
    IN  IF d <= 0 THEN m
        ELSE LET half == BitAt(m, d - 1) = 1
                 rest == sticky \/ ~LowBitsZero(m, d - 1)
                 odd  == BitAt(m, d) = 1
                 kept == ClearLow(m, d)
             IN  IF half /\ (rest \/ odd) THEN MAdd(kept, PowerOfTwo(d))
                 ELSE kept

FZero == [neg |-> FALSE, mag |-> <<>>]

Float(neg, mag) == IF mag = <<>> THEN FZero ELSE [neg |-> neg, mag |-> mag]

FNeg(x) == Float(~x.neg, x.mag)

FAbs(x) == Float(FALSE, x.mag)

\* x < y, x <= y, x = y on doubles
FLt(x, y) ==
    IF x.neg /\ ~y.neg THEN TRUE
    ELSE IF ~x.neg /\ y.neg THEN FALSE
    ELSE IF x.neg THEN MCmp(x.mag, y.mag) = 1
    ELSE MCmp(x.mag, y.mag) = -1

FLe(x, y) == ~FLt(y, x)

\* x + y, x - y: the exact sum, rounded
FAdd(x, y) ==
    IF x.neg = y.neg
    THEN Float(x.neg, MRound(MAdd(x.mag, y.mag), FALSE))
    ELSE IF MCmp(x.mag, y.mag) >= 0
    THEN Float(x.neg, MRound(MSub(x.mag, y.mag), FALSE))
    ELSE Float(y.neg, MRound(MSub(y.mag, x.mag), FALSE))

FSub(x, y) == FAdd(x, FNeg(y))

\* the limbs of a natural number, lowest first
RECURSIVE IntLimbs(_)
IntLimbs(a) == IF a = 0 THEN <<>> ELSE <<a % Base>> \o IntLimbs(a \div Base)

\* float(n) for an int n: exact when n has two limbs, the nearest double
\* (ties to even) in general
FromInt(n) ==
    LET a == IF n < 0 THEN -n ELSE n
    IN  IF a \div Base < Base
        THEN Float(n < 0,
                   MTrim([i \in 1..(FracLimbs + 2) |->
                             IF i = FracLimbs + 1 THEN a % Base
                             ELSE IF i = FracLimbs + 2 THEN a \div Base
                             ELSE 0]))
        ELSE Float(n < 0,
                   MRound([i \in 1..FracLimbs |-> 0] \o IntLimbs(a), FALSE))

\* the largest exponent of a double: from 2^1024 on float(n) raises
\* OverflowError and a product is inf
FloatMaxExp == 1024

FOverflows(x) == MBitLen(x.mag) > FracBits + FloatMaxExp

\* x / n for an int n >= 1: the exact quotient, rounded
FDivInt(x, n) ==
    LET d == MDivSmall(x.mag, n)
    IN  Float(x.neg, MRound(d.q, d.r # 0))

\* m divided by 100, k times, keeping whether anything was dropped
RECURSIVE MDivHundreds(_, _, _)
MDivHundreds(m, k, sticky) ==
    IF k = 0 THEN [q |-> m, sticky |-> sticky]
    ELSE LET d == MDivSmall(m, 100)
         IN  MDivHundreds(d.q, k - 1, sticky \/ d.r # 0)

\* the double nearest to n / 10^8, what float() makes of a decimal with 8
\* places and what round(x, 8) returns for the decimal it has rounded to
FromGrid(n) ==
    LET d == MDivHundreds(FromInt(n).mag, 4, FALSE)
    IN  Float(n < 0, MRound(d.q, d.sticky))

\* the whole part of a magnitude, as an int
RECURSIVE LimbsToInt(_, _)
LimbsToInt(m, i) ==
    IF i > Len(m) THEN 0 ELSE m[i] + Base * LimbsToInt(m, i + 1)

IntPart(m) == LimbsToInt(m, FracLimbs + 1)

\* the fraction of m: -1, 0, 1 as it is below, at or above one half
FracVsHalf(m) ==
    IF BitAt(m, FracBits - 1) = 0 THEN -1
    ELSE IF LowBitsZero(m, FracBits - 1) THEN 0
    ELSE 1

\* round(x, 8): the decimal with 8 places nearest to the exact value of x
\* (ties to even), converted back to a double
FRound8(x) ==
    LET scaled == MMulSmall(MMulSmall(MMulSmall(MMulSmall(x.mag, 100), 100),
                                      100), 100)
        whole  == IntPart(scaled)
        up     == \/ FracVsHalf(scaled) = 1
                  \/ (FracVsHalf(scaled) = 0 /\ whole % 2 = 1)
        n      == IF up THEN whole + 1 ELSE whole
    IN  FromGrid(IF x.neg THEN -n ELSE n)

\* x * 1_000_000: the exact product, rounded to a double
FTimesMillion(x) ==
    Float(x.neg, MRound(MMulSmall(MMulSmall(x.mag, 1000), 1000), FALSE))

\* int(x * 1_000_000): the product truncated towards zero
FTimesMillionInt(x) ==
    LET p == FTimesMillion(x)
    IN  IF p.neg THEN -IntPart(p.mag) ELSE IntPart(p.mag)

\* round(x) with no digits: the nearest int, ties to even
FRoundInt(x) ==
    LET whole == IntPart(x.mag)
        up    == \/ FracVsHalf(x.mag) = 1
                 \/ (FracVsHalf(x.mag) = 0 /\ whole % 2 = 1)
        n     == IF up THEN whole + 1 ELSE whole
    IN  IF x.neg THEN -n ELSE n

\* sum(): 0 + s[1] + ... + s[n], added left to right
RECURSIVE FSumFrom(_, _, _)
FSumFrom(s, i, acc) ==
    IF i > Len(s) THEN acc ELSE FSumFrom(s, i + 1, FAdd(acc, s[i]))

FSum(s) == FSumFrom(s, 1, FZero)

-----------------------------------------------------------------------------
(* Schedule construction, IotaWallet.py 679-685 *)

\* line 679: round(max_response_amount / divisor, 8)
per_response(T, N) == FRound8(FDivInt(T, N))

\* lines 680-685: N equal chunks, and the residue max_response_amount -
\* sum(response_amounts) added to the last one when it is not zero
BuildSchedule(T, N) ==
    LET naive == [i \in 1..N |-> per_response(T, N)]
        diff  == FSub(T, FSum(naive))
    IN  IF FLt(FZero, FAbs(diff))
        THEN [naive EXCEPT ![N] = FAdd(naive[N], diff)]
        ELSE naive

\* line 708: custom_amount = int(send_amt * 1_000_000)
ToMicros(send_amt) == FTimesMillionInt(send_amt)

-----------------------------------------------------------------------------
(* Balance reading, IotaWallet.py 549-593.  get_my_balance returns 0 when   *)
(* the library raises, and get_available_balances then returns 0.0: a      *)
(* failed sync reads as an empty balance.  A good read returns             *)
(* float(available).                                                       *)

get_available_balances(syncOk, raw) == IF syncOk THEN FromInt(raw) ELSE FZero

-----------------------------------------------------------------------------
(* The responder loop, IotaWallet.py 691-724 *)

WhileCondOffByOne(tr, cap) == FLe(tr, cap)

\* line 691
WhileCond(tr, cap) == FLt(tr, cap)

\* a net increment that forgets what was paid out
NetIgnoringResponded(current_balance, start, tr, tresp) ==
    FSub(current_balance, FAdd(start, tr))

\* line 695
NetIncrement(current_balance, start, tr, tresp) ==
    FSub(current_balance, FSub(FAdd(start, tr), tresp))

\* line 697
DispatchGuard(net, tresp) == FLt(FZero, net) \/ tresp = FZero

\* line 722
CapReached(tr, cap) == FLe(cap, tr)

NoCycle == [polled |-> FALSE, tick |-> 0, ext |-> FALSE, readOk |-> TRUE,
            afterSelfPay |-> FALSE, entered |-> FALSE, sent |-> FALSE]

HttpIdle ==
    /\ SESSIONS = <<>>
    /\ vaults = <<>>
    /\ folders = {}
    /\ inflight = EmptyBag
    /\ overlapped = FALSE
    /\ issued = {}
    /\ revoked = {}
    /\ response = <<>>

\* max_response_amount as the caller writes it: the float nearest to a
\* decimal number of micro-units
Targets == { FromGrid(m * GridPerMicro) : m \in 1..MaxTargetMicros }

\* The call: its arguments, and the ledger as it stands
Init ==
    /\ max_amount_received \in { FromInt(k) : k \in 0..MaxCap }
    /\ max_response_amount \in Targets
    /\ divisor \in 1..MaxDivisor
    /\ received_token_id = NoToken
    /\ response_token_id \in TokenIds
    /\ ledger \in 0..MaxStart
    /\ starting_balance = FZero
    /\ total_received = FZero
    /\ total_responded = FZero
    /\ response_amounts = <<>>
    /\ idx = 0
    /\ net_increment = FZero
    /\ pc = "start"
    /\ transfers = <<>>
    /\ fresh = FALSE
    /\ receiptPolls = 0
    /\ selfPaid = FALSE
    /\ last = NoCycle
    /\ HttpIdle

\* lines 674-690
Start ==
    /\ pc = "start"
    /\ \E syncOk \in BOOLEAN :
          starting_balance' = get_available_balances(syncOk, ledger)
    /\ response_amounts' = BuildSchedule(max_response_amount, divisor)
    /\ pc' = "loop"
    /\ UNCHANGED <<max_amount_received, max_response_amount, divisor,
                   received_token_id, response_token_id, total_received,
                   total_responded, idx, net_increment, ledger, transfers,
                   fresh, receiptPolls, selfPaid, last>>
    /\ UNCHANGED httpVars

\* line 691, condition false: the while loop ends
LoopExit ==
    /\ pc = "loop"
    /\ ~WhileCond(total_received, max_amount_received)
    /\ pc' = "done"
    /\ UNCHANGED <<max_amount_received, max_response_amount, divisor,
                   received_token_id, response_token_id, starting_balance,
                   total_received, total_responded, response_amounts, idx,
                   net_increment, ledger, transfers, fresh, receiptPolls,
                   selfPaid, last>>
    /\ UNCHANGED httpVars

\* The first half of an iteration, lines 691-700: the sleep, the balance
\* read and the bookkeeping of the receipt.  When the branch of line 697 is
\* entered with a chunk left, the transfer of lines 701-714 follows as a
\* step of its own (pc = "send"): it goes to the network again, and a
\* payment can arrive in between.  Otherwise the iteration ends here, by
\* the break of line 720 or by the test of line 722.
PollWith(syncOk) ==
    /\ pc = "loop"
    /\ WhileCond(total_received, max_amount_received)
    /\ LET current_balance == get_available_balances(syncOk, ledger)
           net      == NetIncrement(current_balance, starting_balance,
                                    total_received, total_responded)
           entered  == DispatchGuard(net, total_responded)
           tr1      == IF entered THEN FAdd(total_received, net)
                       ELSE total_received
           sending  == entered /\ idx < Len(response_amounts)
       IN  /\ net_increment' = net
           /\ total_received' = tr1
           /\ pc' = IF sending THEN "send"
                    ELSE IF entered \/ CapReached(tr1, max_amount_received)
                    THEN "done" ELSE "loop"
           /\ fresh' = FALSE
           /\ receiptPolls' = IF fresh THEN receiptPolls + 1 ELSE receiptPolls
           /\ selfPaid' = FALSE
           /\ last' = [polled |-> TRUE, tick |-> 1 - last.tick,
                       ext |-> fresh, readOk |-> syncOk,
                       afterSelfPay |-> selfPaid, entered |-> entered,
                       sent |-> sending]
    /\ UNCHANGED <<max_amount_received, max_response_amount, divisor,
                   received_token_id, response_token_id, starting_balance,
                   total_responded, response_amounts, idx, ledger, transfers>>
    /\ UNCHANGED httpVars

Poll == \E syncOk \in BOOLEAN : PollWith(syncOk)

\* The second half, lines 701-724.  send_transaction_any (268-312) catches
\* every Exception of the wallet library and returns a dict, so the try of
\* lines 703-714 always runs to its end and the except of 715-717 is never
\* entered: sendOk tells whether the transfer happened, not which path
\* runs.  A base-coin transfer (285-293) takes its amount out of the base
\* coins.  A native-token transfer (294-307) takes its amount out of that
\* token and, its output being built with amount 0 and a gifted storage
\* deposit, the deposit out of the base coins.
DispatchWith(sendOk, storageDeposit) ==
    /\ pc = "send"
    /\ LET send_amt  == response_amounts[idx + 1]
           amount    == ToMicros(send_amt)
           sameAsset == received_token_id = response_token_id
           paid      == sendOk /\ sameAsset
           gifted    == IF sendOk /\ response_token_id # NoToken
                           /\ received_token_id = NoToken
                        THEN storageDeposit ELSE 0
           taken     == (IF paid THEN amount ELSE 0) + gifted
       IN  \* the library cannot move more than the account holds
           /\ sendOk => (amount >= 0 /\ ledger >= taken)
           /\ total_responded' = FAdd(total_responded, send_amt)
           /\ idx' = idx + 1
           /\ ledger' = ledger - taken
           /\ transfers' = Append(transfers,
                                  [amount |-> amount, ok |-> sendOk])
           /\ pc' = IF CapReached(total_received, max_amount_received)
                    THEN "done" ELSE "loop"
           /\ selfPaid' = (paid /\ last.readOk /\ amount > 0)
    /\ UNCHANGED <<max_amount_received, max_response_amount, divisor,
                   received_token_id, response_token_id, starting_balance,
                   total_received, response_amounts, net_increment, fresh,
                   receiptPolls, last>>
    /\ UNCHANGED httpVars

Dispatch ==
    \E sendOk \in BOOLEAN, storageDeposit \in 1..MaxStorageDeposit :
        DispatchWith(sendOk, storageDeposit)

\* The counterparty (or anyone) pays one raw unit into the watched asset
Deposit ==
    /\ pc # "start"
    /\ receiptPolls + (IF fresh THEN 1 ELSE 0) < MaxDeposits
    /\ ~fresh
    /\ ledger' = ledger + 1
    /\ fresh' = TRUE
    /\ UNCHANGED <<max_amount_received, max_response_amount, divisor,
                   received_token_id, response_token_id, starting_balance,
                   total_received, total_responded, response_amounts, idx,
                   net_increment, pc, transfers, receiptPolls, selfPaid,
                   last>>
    /\ UNCHANGED httpVars

Next == Start \/ LoopExit \/ Poll \/ Dispatch \/ Deposit

Spec == Init /\ [][Next]_vars

\* The loop is sequential code: whenever a step of it can run, it
\* eventually does, and the balance read does not fail for ever.  Nothing
\* obliges anyone to pay in.  Each step of the loop is told by what it
\* does to pc and to the record of the last read: only Start leaves
\* "start", only Dispatch leaves "send", only Poll flips last.tick, and
\* each of them can run whenever the loop is at its place.
Started == pc = "start" /\ pc' = "loop"

Dispatched == pc = "send" /\ pc' \in {"loop", "done"}

PolledWith(reads) ==
    /\ pc = "loop"
    /\ WhileCond(total_received, max_amount_received)
    /\ last' \in [polled : {TRUE}, tick : {1 - last.tick}, ext : BOOLEAN,
                  readOk : reads, afterSelfPay : BOOLEAN, entered : BOOLEAN,
                  sent : BOOLEAN]

Polled == PolledWith(BOOLEAN)

GoodPoll == PolledWith({TRUE})

FairSpec ==
    Spec /\ WF_pc(Started) /\ WF_vars(LoopExit) /\ WF_last(Polled)
         /\ WF_pc(Dispatched) /\ SF_last(GoodPoll)

-----------------------------------------------------------------------------
(* Strings of the HTTP layer are sequences of Unicode code points.  The    *)
(* ASCII characters that the literals of the program use are written       *)
(* through Ord.                                                            *)

DigitChars == <<"0", "1", "2", "3", "4", "5", "6", "7", "8", "9">>
UpperChars ==
    <<"A", "B", "C", "D", "E", "F", "G", "H", "I", "J", "K", "L", "M", "N",
      "O", "P", "Q", "R", "S", "T", "U", "V", "W", "X", "Y", "Z">>
LowerChars ==
    <<"a", "b", "c", "d", "e", "f", "g", "h", "i", "j", "k", "l", "m", "n",
      "o", "p", "q", "r", "s", "t", "u", "v", "w", "x", "y", "z">>

IndexIn(chars, c) == CHOOSE i \in 1..Len(chars) : chars[i] = c

\* ord(c)
Ord(c) ==
    CASE c = " " -> 32
      [] c = "'" -> 39
      [] c = ")" -> 41
      [] c = "," -> 44
      [] c = "=" -> 61
      [] \E i \in 1..Len(DigitChars) : DigitChars[i] = c ->
            47 + IndexIn(DigitChars, c)
      [] \E i \in 1..Len(UpperChars) : UpperChars[i] = c ->
            64 + IndexIn(UpperChars, c)
      [] \E i \in 1..Len(LowerChars) : LowerChars[i] = c ->
            96 + IndexIn(LowerChars, c)

Str(cs) == [i \in 1..Len(cs) |-> Ord(cs[i])]

LineFeed == 10
NextLine == 133
NoBreakSpace == 160

Bearer == Str(<<"B", "e", "a", "r", "e", "r">>)
BearerPrefix == Bearer \o Str(<<" ">>)

\* the characters c with c.isspace(), at which str.split() cuts
Whitespace ==
    (9..13) \cup (28..32) \cup {NextLine, NoBreakSpace, 5760}
    \cup (8192..8202) \cup {8232, 8233, 8239, 8287, 12288}

\* str.startswith
StartsWith(s, p) == Len(s) >= Len(p) /\ SubSeq(s, 1, Len(p)) = p

\* str.split() without arguments: the maximal runs of non-whitespace
RECURSIVE SplitWs(_, _, _)
SplitWs(s, word, words) ==
    IF s = <<>>
    THEN IF word = <<>> THEN words ELSE Append(words, word)
    ELSE IF Head(s) \in Whitespace
         THEN SplitWs(Tail(s), <<>>,
                      IF word = <<>> THEN words ELSE Append(words, word))
         ELSE SplitWs(Tail(s), Append(word, Head(s)), words)

split(s) == SplitWs(s, <<>>, <<>>)

Rep(c, n) == [i \in 1..n |-> c]

\* secrets.token_urlsafe(32) draws 256 random bits: a token is taken never
\* to repeat one handed out before.  Tokens are one character long here.
TokenAlphabet == Str(<<"a", "b", "c", "d", "e", "f">>)
Tokens == { <<TokenAlphabet[i]>> : i \in 1..MaxTokens }

Accounts == {"alice"}

\* The Authorization header as FastAPI hands it to the handler
NoHeader == [present |-> FALSE, value |-> <<>>]
Hdr(v) == [present |-> TRUE, value |-> v]
BearerOf(t) == Hdr(BearerPrefix \o t)

Headers ==
    {NoHeader, Hdr(<<>>), Hdr(Bearer), Hdr(BearerPrefix),
     Hdr(BearerPrefix \o Str(<<" ">>)),
     Hdr(BearerPrefix \o <<NoBreakSpace>>)}
    \cup { BearerOf(t) : t \in Tokens }
    \cup { Hdr(BearerPrefix \o Str(<<" ">>) \o <<TokenAlphabet[1]>>),
           Hdr(BearerPrefix \o <<TokenAlphabet[1]>> \o Str(<<" ", "x">>)),
           Hdr(BearerPrefix \o <<TokenAlphabet[1], NoBreakSpace>>
               \o Str(<<"x">>)),
           Hdr(BearerPrefix \o <<TokenAlphabet[1], NextLine>>
               \o Str(<<"x">>)),
           Hdr(Bearer \o <<NoBreakSpace, TokenAlphabet[1]>>),
           Hdr(Str(<<"B", "a", "s", "i", "c", " ">>) \o <<TokenAlphabet[1]>>),
           Hdr(Str(<<"b", "e", "a", "r", "e", "r", " ">>)
               \o <<TokenAlphabet[1]>>) }

-----------------------------------------------------------------------------
(* _auth, FreeSwapP2P.py 81-88.  An exception that is no HTTPException     *)
(* (the IndexError of split()[1]) leaves the handler and the framework     *)
(* answers 500.                                                            *)

auth(authorization, sessions) ==
    IF ~authorization.present \/ authorization.value = <<>>
       \/ ~StartsWith(authorization.value, BearerPrefix)
    THEN [status |-> 401, token |-> <<>>]
    ELSE IF Len(split(authorization.value)) < 2
    THEN [status |-> 500, token |-> <<>>]
    ELSE LET token == split(authorization.value)[2]
         IN  IF token \notin DOMAIN sessions
             THEN [status |-> 401, token |-> token]
             ELSE [status |-> 200, token |-> token]

\* _SESSIONS[token] = {...}, line 110
\* a login that would forget every other session
PutForgetting(sessions, token, sess) == [t \in {token} |-> sess]

PutSession(sessions, token, sess) ==
    [t \in DOMAIN sessions \cup {token} |->
        IF t = token THEN sess ELSE sessions[t]]

PopNothing(sessions, token) == sessions

\* _SESSIONS.pop(token, None), line 138
PopSession(sessions, token) ==
    [t \in DOMAIN sessions \ {token} |-> sessions[t]]

\* _SMR_ADDR_RE, line 91; re.match with $, which also matches just before
\* a newline that ends the string
AddrBodyLen == 59
Smr1 == Str(<<"s", "m", "r", "1">>)
Bech32Charset ==
    { Ord(c) : c \in
      {"q", "p", "z", "r", "y", "9", "x", "8", "g", "f", "2", "t", "v", "d",
       "w", "0", "s", "3", "j", "n", "5", "4", "k", "h", "c", "e", "6", "m",
       "u", "a", "7", "l"} }

AddrPattern(r) ==
    /\ Len(r) = Len(Smr1) + AddrBodyLen
    /\ SubSeq(r, 1, Len(Smr1)) = Smr1
    /\ \A i \in (Len(Smr1) + 1)..Len(r) : r[i] \in Bech32Charset

SMR_ADDR_RE_match(r) ==
    \/ AddrPattern(r)
    \/ /\ Len(r) > 0
       /\ r[Len(r)] = LineFeed
       /\ AddrPattern(SubSeq(r, 1, Len(r) - 1))

Recipients ==
    { Smr1 \o Rep(Ord("q"), AddrBodyLen),
      Smr1 \o Rep(Ord("l"), AddrBodyLen - 1) \o Str(<<"7">>),
      Smr1 \o Rep(Ord("q"), AddrBodyLen - 1),
      Smr1 \o Rep(Ord("q"), AddrBodyLen + 1),
      Smr1 \o Rep(Ord("q"), AddrBodyLen - 1) \o Str(<<"b">>),
      Str(<<"S", "M", "R", "1">>) \o Rep(Ord("q"), AddrBodyLen),
      Smr1 \o Rep(Ord("q"), AddrBodyLen) \o <<LineFeed>>,
      <<>> }

\* The decimal digits that \d matches and int() reads: the characters of
\* Unicode category Nd.  They come in runs of ten, 0 to 9; these are the
\* code points of the zeros ("0" is 48).
DecimalZeros ==
    {48, 1632, 1776, 1984, 2406, 2534, 2662, 2790, 2918, 3046, 3174, 3302,
     3430, 3558, 3664, 3792, 3872, 4160, 4240, 6112, 6160, 6470, 6608, 6784,
     6800, 6992, 7088, 7232, 7248, 42528, 43216, 43264, 43472, 43504, 43600,
     44016, 65296, 66720, 68912, 69734, 69872, 69942, 70096, 70384, 70736,
     70864, 71248, 71360, 71472, 71904, 72016, 72784, 73040, 73120, 92768,
     92864, 93008, 120782, 120792, 120802, 120812, 120822, 123200, 123632,
     125264, 130032}

IsDigit(c) == \E z \in DecimalZeros : c - z \in 0..9

DigitValue(c) == c - CHOOSE z \in DecimalZeros : c - z \in 0..9

\* str(n) of an int n >= 0
RECURSIVE Decimal(_)
Decimal(n) ==
    IF n < 10 THEN <<Ord("0") + n>>
    ELSE Decimal(n \div 10) \o <<Ord("0") + (n % 10)>>

RECURSIVE ParseInt(_)
ParseInt(ds) ==
    IF ds = <<>> THEN 0
    ELSE 10 * ParseInt(SubSeq(ds, 1, Len(ds) - 1)) + DigitValue(ds[Len(ds)])

\* int() refuses a string of more digits than this with a ValueError
IntMaxStrDigits == 4300

\* the literal part of the pattern available='(\d+)' of IotaWallet.py 570
AvailableKey ==
    Str(<<"a", "v", "a", "i", "l", "a", "b", "l", "e", "=", "'">>)

Apostrophe == Ord("'")

\* the last position of the run of digits that starts at position k of s
\* (k - 1 when s has no digit there)
RECURSIVE DigitRunEnd(_, _)
DigitRunEnd(s, k) ==
    IF k <= Len(s) /\ IsDigit(s[k]) THEN DigitRunEnd(s, k + 1) ELSE k - 1

\* the pattern matches at position i: the key, one digit or more, a quote
MatchesAt(s, i) ==
    LET k == i + Len(AvailableKey)
        e == DigitRunEnd(s, k)
    IN  /\ k - 1 <= Len(s)
        /\ SubSeq(s, i, k - 1) = AvailableKey
        /\ e >= k
        /\ e + 1 <= Len(s)
        /\ s[e + 1] = Apostrophe

\* parse_available_balance (IotaWallet.py 562-573): re.search takes the
\* leftmost match and int() reads its digits; 0 when nothing matches, and
\* 0 through `except Exception` when int() refuses the digits
parse_available_balance(balance_str) ==
    LET found == { i \in 1..Len(balance_str) : MatchesAt(balance_str, i) }
    IN  IF found = {} THEN 0
        ELSE LET i == CHOOSE j \in found : \A h \in found : j <= h
                 k == i + Len(AvailableKey)
                 digits == SubSeq(balance_str, k, DigitRunEnd(balance_str, k))
             IN  IF Len(digits) > IntMaxStrDigits THEN 0
                 ELSE ParseInt(digits)

\* _parse_balance_to_micros, lines 93-101: int(round(float(parsed) *
\* 1_000_000)) in double arithmetic.  float(parsed) raises OverflowError
\* from 2^1024 on, and round() raises it for a product that is inf; raw is
\* then no int and no float (its text matched the pattern), so the except
\* branch returns 0.
parse_balance_to_micros(raw_str) ==
    LET parsed  == parse_available_balance(raw_str)
        val     == FromInt(parsed)
        product == FTimesMillion(val)
    IN  IF FOverflows(val) \/ FOverflows(product) THEN 0
        ELSE FRoundInt(product)

\* str(raw) of line 95 for what get_my_balance (IotaWallet.py 549-559)
\* returned: the text of a balance object that shows available base coins,
\* or "0" after `get_my_balance(...) or 0` when the sync raised
BalanceStr(balanceOk, available) ==
    IF balanceOk
    THEN Str(<<"t", "o", "t", "a", "l", "=", "'">>) \o Decimal(available + 1)
         \o Str(<<"'", ",", " ">>) \o AvailableKey \o Decimal(available)
         \o Str(<<"'", ")">>)
    ELSE Str(<<"0">>)

-----------------------------------------------------------------------------
(* The vaults on disk.  A vault is the file vault.stronghold in the folder *)
(* of an account name; it holds the wallet that was on disk before the     *)
(* server started ("on disk"), or one written by CreateWallet ("created"), *)
(* by RecoverWallet ("recovered") or by CreateWalletTest ("placeholder"),  *)
(* and `version` counts how often the file was written.                    *)

is_file(files, name) == name \in DOMAIN files

WriteVault(files, name, kind) ==
    [n \in DOMAIN files \cup {name} |->
        IF n = name
        THEN [kind |-> kind,
              version |-> IF name \in DOMAIN files
                          THEN files[name].version + 1 ELSE 1]
        ELSE files[n]]

\* wallet.store_mnemonic(...), IotaWallet.py 93, 190 and 231, when it does
\* not raise: the files it can leave.  The callers take the is_file test
\* first, so only a call that overlaps another one finds a vault here; what
\* the library does then is not in this repository, and it may write over
\* the vault or leave it.
StoreMnemonic(files, name, kind) ==
    IF is_file(files, name)
    THEN {files, WriteVault(files, name, kind)}
    ELSE {WriteVault(files, name, kind)}

\* SignInToAccount, IotaWallet.py 138 and 148-150: without a vault file the
\* function returns (None, None) before any call into the library
SignInReturnsEarly(files, name) == ~is_file(files, name)

\* SignInToAccount, IotaWallet.py 139-147 and 151-153: the wallet and its
\* accounts once recover_accounts is back, (None, None) when the library
\* raises; no branch writes a vault
SignInToAccountReturn(libOk, accounts0) ==
    IF libOk
    THEN [wallet |-> TRUE, accounts |-> accounts0]
    ELSE [wallet |-> FALSE, accounts |-> 0]

\* RecoverWallet, IotaWallet.py 178-180: the early return False
RecoverWalletReturnsEarly(files, name) == is_file(files, name)

\* a CreateWallet that goes on whatever is on disk
CreateNeverReturnsEarly(files, name) == FALSE

\* CreateWallet, IotaWallet.py 219-221: the early return None
CreateWalletReturnsEarly(files, name) == is_file(files, name)

\* The value RecoverWallet returns once its library calls are over
\* (IotaWallet.py 181-196): every exception is caught and gives False
RecoverWalletReturn(libOk) == IF libOk THEN "True" ELSE "False"

\* The value CreateWallet returns once its library calls are over
\* (IotaWallet.py 223-234): an exception of the library is not caught
CreateWalletReturn(libOk) == IF libOk THEN "mnemonic" ELSE "raise"

-----------------------------------------------------------------------------
(* Requests being served.  The handlers and _auth are plain functions:     *)
(* FastAPI runs the dependency _auth of a request in a thread of its pool, *)
(* comes back, and runs the handler in a thread of the pool afterwards,    *)
(* with no lock, so requests overlap and other requests are served between *)
(* the two and while a handler waits inside the wallet library.  A call in *)
(* flight is in one of these phases:                                       *)
(*   "admitted"  /api/send: _auth has returned the session, the handler    *)
(*               has not run yet;                                          *)
(*   "library"   the handler is inside the wallet library (for the vault   *)
(*               functions: the is_file test found no vault and            *)
(*               store_mnemonic has not written one yet);                  *)
(*   "written"   store_mnemonic has written the vault, create_account is   *)
(*               running;                                                  *)
(*   "open"      CreateWalletTest found a vault and is opening it.         *)
(* For /api/balance and /api/address the handler's first statement is the  *)
(* call into the library, so they pass from _auth to "library" at once.    *)
(* A request to an authenticated route holds the session _auth gave it,    *)
(* told here by its token; the handler of /api/send holds the body as      *)
(* well.  The handler never sees the header.                               *)

NoCall == [fn |-> "none", name |-> "", phase |-> "library", token |-> <<>>,
           recipient |-> <<>>, amount |-> 0]

InVault(fn, name, phase) ==
    [NoCall EXCEPT !.fn = fn, !.name = name, !.phase = phase]

InLogin(name) == [NoCall EXCEPT !.fn = "login", !.name = name]

InAuth(route, token, phase) ==
    [NoCall EXCEPT !.fn = route, !.token = token, !.phase = phase]

InSend(token, recipient, amount) ==
    [NoCall EXCEPT !.fn = "send", !.token = token,
                   !.recipient = recipient, !.amount = amount]

RequestFns == {"login", "balance", "address", "send"}

VaultFns == {"CreateWallet", "RecoverWallet", "CreateWalletTest"}

Enter(calls, c) == calls (+) SetToBag({c})

Leave(calls, c) == calls (-) SetToBag({c})

\* how many of the calls in flight are among these
CallsIn(calls, these) ==
    BagCardinality([c \in DOMAIN calls \cap these |-> calls[c]])

\* one more request to a session route can be in flight
RequestFree(calls) ==
    CallsIn(calls, { c \in DOMAIN calls : c.fn \in RequestFns }) < MaxRequests

\* one more call of a vault function can be in flight
VaultCallFree(calls) ==
    CallsIn(calls, { c \in DOMAIN calls : c.fn \in VaultFns }) < MaxVaultCalls

\* how many calls in flight have found no vault and write one, or have
\* written it and not returned
WritersIn(calls) ==
    CallsIn(calls, { c \in DOMAIN calls :
                        c.fn \in VaultFns
                        /\ c.phase \in {"library", "written"} })

\* two such calls have been in flight at the same time
OverlapAfter(was, calls) == was \/ WritersIn(calls) >= 2

NoResponse ==
    [route |-> "none", auth |-> NoHeader, status |-> 0, calls |-> {},
     libOk |-> TRUE, transferred |-> FALSE, txid |-> "none", amount |-> 0,
     recipient |-> <<>>, available |-> 0, token |-> <<>>,
     name |-> "", ret |-> "none", existed |-> FALSE]

Failure(route, authorization, status) ==
    [NoResponse EXCEPT !.route = route, !.auth = authorization,
                       !.status = status]

\* the responder's variables but the ledger
respLocals == <<max_amount_received, max_response_amount, divisor,
                received_token_id, response_token_id,
                starting_balance, total_received, total_responded,
                response_amounts, idx, net_increment, pc,
                transfers, fresh, receiptPolls, selfPaid, last>>

RespIdle ==
    /\ max_amount_received = FZero
    /\ max_response_amount = FromInt(1)
    /\ divisor = 1
    /\ received_token_id = NoToken
    /\ response_token_id = NoToken
    /\ starting_balance = FZero
    /\ total_received = FZero
    /\ total_responded = FZero
    /\ response_amounts = <<>>
    /\ idx = 0
    /\ net_increment = FZero
    /\ pc = "start"
    /\ transfers = <<>>
    /\ fresh = FALSE
    /\ receiptPolls = 0
    /\ selfPaid = FALSE
    /\ last = NoCycle

\* The server has just started: no session, no request being served,
\* whatever vaults are on disk, each in its folder, and whatever the wallet
\* holds on the ledger
HttpInit ==
    /\ SESSIONS = <<>>
    /\ vaults \in UNION { [S -> {[kind |-> "on disk", version |-> 1]}] :
                            S \in SUBSET Accounts }
    /\ folders \in { F \in SUBSET Accounts : DOMAIN vaults \subseteq F }
    /\ inflight = EmptyBag
    /\ overlapped = FALSE
    /\ issued = {}
    /\ revoked = {}
    /\ response = NoResponse
    /\ ledger \in 0..MaxStart
    /\ RespIdle

\* `response` is the response being looked at; the next one is looked at
\* once this one has been delivered.
Reply ==
    /\ response # NoResponse
    /\ response' = NoResponse
    /\ UNCHANGED <<SESSIONS, vaults, folders, inflight, overlapped, issued,
                   revoked>>
    /\ UNCHANGED respVars

\* POST /api/login, line 106, up to the is_file test of SignInToAccount
\* (IotaWallet.py 117-138): without a vault the function returns
\* (None, None) and the route answers 401; with one the call goes on into
\* the wallet library
LoginCall ==
    /\ response = NoResponse
    /\ \E name \in Accounts :
        IF SignInReturnsEarly(vaults, name)
        THEN /\ response' = [Failure("login", NoHeader, 401) EXCEPT
                                !.calls = {"SignInToAccount"},
                                !.name = name, !.existed = FALSE,
                                !.ret = "None"]
             /\ UNCHANGED inflight
        ELSE /\ RequestFree(inflight)
             /\ inflight' = Enter(inflight, InLogin(name))
             /\ UNCHANGED response
    /\ UNCHANGED <<SESSIONS, vaults, folders, overlapped, issued, revoked>>
    /\ UNCHANGED respVars

\* POST /api/login, lines 106-116, once SignInToAccount is back from
\* recover_accounts (IotaWallet.py 139-153): 401, or a new token and its
\* session
LoginReturn ==
    /\ response = NoResponse
    /\ \E name \in Accounts, libOk \in BOOLEAN, accounts0 \in 0..1 :
        LET c == InLogin(name)
            r == SignInToAccountReturn(libOk, accounts0)
        IN  /\ BagIn(c, inflight)
            /\ inflight' = Leave(inflight, c)
            /\ IF ~r.wallet \/ r.accounts = 0
               THEN /\ response' = [Failure("login", NoHeader, 401) EXCEPT
                                    !.calls = {"SignInToAccount"},
                                    !.libOk = libOk, !.name = name,
                                    !.existed = TRUE,
                                    !.ret = IF r.wallet THEN "wallet"
                                            ELSE "None"]
                    /\ UNCHANGED <<SESSIONS, issued>>
               ELSE \E token \in Tokens \ issued :
                    /\ SESSIONS' = PutSession(SESSIONS, token,
                                              [account_name |-> name])
                    /\ issued' = issued \cup {token}
                    /\ response' = [NoResponse EXCEPT
                                    !.route = "login", !.status = 200,
                                    !.calls = {"SignInToAccount"},
                                    !.token = token, !.name = name,
                                    !.existed = TRUE,
                                    !.ret = "wallet"]
    /\ UNCHANGED <<vaults, folders, overlapped, revoked>>
    /\ UNCHANGED respVars

\* POST /api/recover, lines 118-123, up to the is_file test of
\* RecoverWallet (IotaWallet.py 156-180): with a vault on disk the function
\* returns False and the route answers 400; without one the call goes on
\* into the wallet library
RecoverCall ==
    /\ response = NoResponse
    /\ \E name \in Accounts :
        IF RecoverWalletReturnsEarly(vaults, name)
        THEN /\ response' = [NoResponse EXCEPT
                    !.route = "recover", !.status = 400,
                    !.calls = {"RecoverWallet"},
                    !.name = name, !.ret = "False", !.existed = TRUE]
             /\ UNCHANGED <<inflight, overlapped>>
        ELSE /\ VaultCallFree(inflight)
             /\ inflight' =
                  Enter(inflight, InVault("RecoverWallet", name, "library"))
             /\ overlapped' = OverlapAfter(overlapped, inflight')
             /\ UNCHANGED response
    /\ UNCHANGED <<SESSIONS, vaults, folders, issued, revoked>>
    /\ UNCHANGED respVars

\* RecoverWallet, IotaWallet.py 181-190: the secret manager and the wallet
\* are built and store_mnemonic writes the vault, or one of these raises,
\* the function returns False and the route answers 400
RecoverStore ==
    /\ response = NoResponse
    /\ \E name \in Accounts, libOk \in BOOLEAN :
        LET c == InVault("RecoverWallet", name, "library")
        IN  /\ BagIn(c, inflight)
            /\ IF libOk
               THEN /\ vaults' \in StoreMnemonic(vaults, name, "recovered")
                    /\ folders' = folders \cup {name}
                    /\ inflight' =
                         Enter(Leave(inflight, c),
                               InVault("RecoverWallet", name, "written"))
                    /\ UNCHANGED response
               ELSE /\ inflight' = Leave(inflight, c)
                    /\ response' = [NoResponse EXCEPT
                            !.route = "recover", !.status = 400,
                            !.calls = {"RecoverWallet"}, !.libOk = FALSE,
                            !.name = name,
                            !.ret = RecoverWalletReturn(FALSE)]
                    /\ UNCHANGED <<vaults, folders>>
    /\ UNCHANGED <<SESSIONS, overlapped, issued, revoked>>
    /\ UNCHANGED respVars

\* RecoverWallet, IotaWallet.py 191-196, and the rest of the route:
\* create_account, then True and 200, or False and 400 when it raises
RecoverReturn ==
    /\ response = NoResponse
    /\ \E name \in Accounts, libOk \in BOOLEAN :
        LET c == InVault("RecoverWallet", name, "written")
        IN  /\ BagIn(c, inflight)
            /\ inflight' = Leave(inflight, c)
            /\ response' = [NoResponse EXCEPT
                    !.route = "recover",
                    !.status = IF RecoverWalletReturn(libOk) = "True"
                               THEN 200 ELSE 400,
                    !.calls = {"RecoverWallet"}, !.libOk = libOk,
                    !.name = name, !.ret = RecoverWalletReturn(libOk)]
    /\ UNCHANGED <<SESSIONS, vaults, folders, overlapped, issued, revoked>>
    /\ UNCHANGED respVars

\* POST /api/create, lines 125-132, up to the is_file test of CreateWallet
\* (IotaWallet.py 199-221): with a vault on disk the function returns
\* None, which the route answers as {"mnemonic": "None"}; without one the
\* call goes on into the wallet library
CreateCall ==
    /\ response = NoResponse
    /\ \E name \in Accounts :
        IF CreateWalletReturnsEarly(vaults, name)
        THEN /\ response' = [NoResponse EXCEPT
                    !.route = "create", !.status = 200,
                    !.calls = {"CreateWallet"}, !.txid = "None",
                    !.name = name, !.ret = "None", !.existed = TRUE]
             /\ UNCHANGED <<inflight, overlapped>>
        ELSE /\ VaultCallFree(inflight)
             /\ inflight' =
                  Enter(inflight, InVault("CreateWallet", name, "library"))
             /\ overlapped' = OverlapAfter(overlapped, inflight')
             /\ UNCHANGED response
    /\ UNCHANGED <<SESSIONS, vaults, folders, issued, revoked>>
    /\ UNCHANGED respVars

\* CreateWallet, IotaWallet.py 223-231: the secret manager and the wallet
\* are built, a mnemonic is generated and store_mnemonic writes the vault,
\* or one of these raises and the route answers 400
CreateStore ==
    /\ response = NoResponse
    /\ \E name \in Accounts, libOk \in BOOLEAN :
        LET c == InVault("CreateWallet", name, "library")
        IN  /\ BagIn(c, inflight)
            /\ IF libOk
               THEN /\ vaults' \in StoreMnemonic(vaults, name, "created")
                    /\ folders' = folders \cup {name}
                    /\ inflight' =
                         Enter(Leave(inflight, c),
                               InVault("CreateWallet", name, "written"))
                    /\ UNCHANGED response
               ELSE /\ inflight' = Leave(inflight, c)
                    /\ response' = [NoResponse EXCEPT
                            !.route = "create", !.status = 400,
                            !.calls = {"CreateWallet"}, !.libOk = FALSE,
                            !.name = name,
                            !.ret = CreateWalletReturn(FALSE)]
                    /\ UNCHANGED <<vaults, folders>>
    /\ UNCHANGED <<SESSIONS, overlapped, issued, revoked>>
    /\ UNCHANGED respVars

\* CreateWallet, IotaWallet.py 232-234, and the rest of the route:
\* create_account, then the mnemonic with a 200, or a 400 when it raises
CreateReturn ==
    /\ response = NoResponse
    /\ \E name \in Accounts, libOk \in BOOLEAN :
        LET c == InVault("CreateWallet", name, "written")
        IN  /\ BagIn(c, inflight)
            /\ inflight' = Leave(inflight, c)
            /\ response' = [NoResponse EXCEPT
                    !.route = "create",
                    !.status = IF CreateWalletReturn(libOk) = "raise"
                               THEN 400 ELSE 200,
                    !.calls = {"CreateWallet"}, !.libOk = libOk,
                    !.name = name, !.ret = CreateWalletReturn(libOk)]
    /\ UNCHANGED <<SESSIONS, vaults, folders, overlapped, issued, revoked>>
    /\ UNCHANGED respVars

\* CreateWalletTest, IotaWallet.py 45-74, called by a script on the same
\* machine: the folder is made, and the is_file test taken.  With a vault
\* on disk the call goes on to open it; without one it goes on to write
\* the placeholder mnemonic.
CreateWalletTestCall ==
    /\ response = NoResponse
    /\ \E name \in Accounts :
        /\ VaultCallFree(inflight)
        /\ folders' = folders \cup {name}
        /\ inflight' =
             Enter(inflight,
                   InVault("CreateWalletTest", name,
                           IF is_file(vaults, name) THEN "open"
                           ELSE "library"))
        /\ overlapped' = OverlapAfter(overlapped, inflight')
    /\ UNCHANGED <<SESSIONS, vaults, issued, revoked, response>>
    /\ UNCHANGED respVars

\* CreateWalletTest, IotaWallet.py 75-82: the vault is opened and
\* recover_accounts lists its accounts, then None, or the library raises;
\* no exception is caught
CreateWalletTestOpened ==
    /\ response = NoResponse
    /\ \E name \in Accounts, libOk \in BOOLEAN :
        LET c == InVault("CreateWalletTest", name, "open")
        IN  /\ BagIn(c, inflight)
            /\ inflight' = Leave(inflight, c)
            /\ response' = [NoResponse EXCEPT
                    !.route = "CreateWalletTest",
                    !.calls = {"CreateWalletTest"},
                    !.libOk = libOk, !.name = name,
                    !.ret = IF libOk THEN "None" ELSE "raise",
                    !.existed = TRUE]
    /\ UNCHANGED <<SESSIONS, vaults, folders, overlapped, issued, revoked>>
    /\ UNCHANGED respVars

\* CreateWalletTest, IotaWallet.py 83-93: the secret manager and the wallet
\* are built and store_mnemonic writes the placeholder mnemonic, or one of
\* these raises; no exception is caught
CreateWalletTestStore ==
    /\ response = NoResponse
    /\ \E name \in Accounts, libOk \in BOOLEAN :
        LET c == InVault("CreateWalletTest", name, "library")
        IN  /\ BagIn(c, inflight)
            /\ IF libOk
               THEN /\ vaults' \in StoreMnemonic(vaults, name, "placeholder")
                    /\ inflight' =
                         Enter(Leave(inflight, c),
                               InVault("CreateWalletTest", name, "written"))
                    /\ UNCHANGED response
               ELSE /\ inflight' = Leave(inflight, c)
                    /\ response' = [NoResponse EXCEPT
                            !.route = "CreateWalletTest",
                            !.calls = {"CreateWalletTest"}, !.libOk = FALSE,
                            !.name = name, !.ret = "raise"]
                    /\ UNCHANGED vaults
    /\ UNCHANGED <<SESSIONS, folders, overlapped, issued, revoked>>
    /\ UNCHANGED respVars

\* CreateWalletTest, IotaWallet.py 94-96 and 112-114: create_account and
\* the print of the first address, then None; no exception is caught
CreateWalletTestReturn ==
    /\ response = NoResponse
    /\ \E name \in Accounts, libOk \in BOOLEAN :
        LET c == InVault("CreateWalletTest", name, "written")
        IN  /\ BagIn(c, inflight)
            /\ inflight' = Leave(inflight, c)
            /\ response' = [NoResponse EXCEPT
                    !.route = "CreateWalletTest",
                    !.calls = {"CreateWalletTest"}, !.libOk = libOk,
                    !.name = name,
                    !.ret = IF libOk THEN "None" ELSE "raise"]
    /\ UNCHANGED <<SESSIONS, vaults, folders, overlapped, issued, revoked>>
    /\ UNCHANGED respVars

\* POST /api/logout, lines 134-139
Logout ==
    /\ response = NoResponse
    /\ \E authorization \in Headers :
        IF authorization.present /\ authorization.value # <<>>
           /\ StartsWith(authorization.value, BearerPrefix)
        THEN IF Len(split(authorization.value)) < 2
             THEN /\ response' = Failure("logout", authorization, 500)
                  /\ UNCHANGED <<SESSIONS, revoked>>
             ELSE LET token == split(authorization.value)[2]
                  IN  /\ SESSIONS' = PopSession(SESSIONS, token)
                      /\ revoked' = IF token \in DOMAIN SESSIONS
                                    THEN revoked \cup {token} ELSE revoked
                      /\ response' = [Failure("logout", authorization, 200)
                                        EXCEPT !.token = token]
        ELSE /\ response' = Failure("logout", authorization, 200)
             /\ UNCHANGED <<SESSIONS, revoked>>
    /\ UNCHANGED <<vaults, folders, inflight, overlapped, issued>>
    /\ UNCHANGED respVars

\* _auth, lines 81-88, the dependency of /api/balance, /api/address and
\* /api/send: it refuses the request, or returns the session and the
\* request goes on to its handler
AuthCheck(route, phase) ==
    /\ response = NoResponse
    /\ \E authorization \in Headers :
        LET a == auth(authorization, SESSIONS)
        IN  IF a.status # 200
            THEN /\ response' = [Failure(route, authorization, a.status)
                                    EXCEPT !.token = a.token]
                 /\ UNCHANGED inflight
            ELSE /\ RequestFree(inflight)
                 /\ inflight' = Enter(inflight, InAuth(route, a.token, phase))
                 /\ UNCHANGED response
    /\ UNCHANGED <<SESSIONS, vaults, folders, overlapped, issued, revoked>>
    /\ UNCHANGED respVars

\* GET /api/balance, lines 141-144, up to the call of get_my_balance
BalanceCall == AuthCheck("balance", "library")

\* GET /api/balance, lines 144-148: get_my_balance has returned
BalanceReturn ==
    /\ response = NoResponse
    /\ \E c \in DOMAIN inflight, balanceOk \in BOOLEAN,
          available \in { 6 * k : k \in 0..MaxBalance } :
        /\ c.fn = "balance"
        /\ inflight' = Leave(inflight, c)
        /\ response' = [NoResponse EXCEPT
                !.route = "balance",
                !.status = 200, !.calls = {"get_my_balance"},
                !.libOk = balanceOk, !.token = c.token,
                !.amount = parse_available_balance(
                                BalanceStr(balanceOk, available)),
                !.available = parse_balance_to_micros(
                                BalanceStr(balanceOk, available))]
    /\ UNCHANGED <<SESSIONS, vaults, folders, overlapped, issued, revoked>>
    /\ UNCHANGED respVars

\* GET /api/address, lines 150-153, up to the call of
\* get_my_address_instanced
AddressCall == AuthCheck("address", "library")

\* GET /api/address, lines 153-162, with get_my_address_Reference,
\* IotaWallet.py 517-527, which returns "" when the library raises
AddressReturn ==
    /\ response = NoResponse
    /\ \E c \in DOMAIN inflight, libOk \in BOOLEAN :
        /\ c.fn = "address"
        /\ inflight' = Leave(inflight, c)
        /\ response' = [NoResponse EXCEPT
                !.route = "address",
                !.status = IF libOk THEN 200 ELSE 404,
                !.calls = {"get_my_address_instanced"},
                !.libOk = libOk, !.token = c.token]
    /\ UNCHANGED <<SESSIONS, vaults, folders, overlapped, issued, revoked>>
    /\ UNCHANGED respVars

\* POST /api/send, line 165: the dependency _auth, run before the handler
SendCall == AuthCheck("send", "admitted")

\* lines 166-169: the tests of the amount and of the recipient
SendBodyOk(recipient, amount) == amount > 0 /\ SMR_ADDR_RE_match(recipient)

\* POST /api/send, lines 166-171: the handler runs with the session _auth
\* returned, whatever has become of it since; it answers 400 or calls
\* send_transaction
SendBody ==
    /\ response = NoResponse
    /\ \E c \in DOMAIN inflight,
          recipient \in Recipients, amount \in (-1)..MaxAmount :
        /\ c.fn = "send"
        /\ c.phase = "admitted"
        /\ IF ~SendBodyOk(recipient, amount)
           THEN /\ inflight' = Leave(inflight, c)
                /\ response' = [NoResponse EXCEPT
                        !.route = "send",
                        !.recipient = recipient, !.amount = amount,
                        !.token = c.token, !.status = 400]
           ELSE /\ inflight' = Enter(Leave(inflight, c),
                                     InSend(c.token, recipient, amount))
                /\ UNCHANGED response
    /\ UNCHANGED <<SESSIONS, vaults, folders, overlapped, issued, revoked>>
    /\ UNCHANGED respVars

\* POST /api/send, lines 171-176, with send_transaction, IotaWallet.py
\* 238-265: send_with_params takes the amount out of the wallet's funds, or
\* raises; send_transaction catches every Exception and returns the dict
\* {"amount": "0", "timestamp": "0"}, which has no attribute id,
\* transactionId, hash or amount, so txid is None and amount is body.amount.
SendReturn ==
    /\ response = NoResponse
    /\ \E c \in DOMAIN inflight, libOk \in BOOLEAN :
        /\ c.fn = "send"
        /\ c.phase = "library"
        /\ libOk => ledger >= c.amount
        /\ ledger' = IF libOk THEN ledger - c.amount ELSE ledger
        /\ inflight' = Leave(inflight, c)
        /\ response' = [NoResponse EXCEPT
                !.route = "send",
                !.recipient = c.recipient, !.amount = c.amount,
                !.token = c.token,
                !.status = 200, !.calls = {"send_transaction"},
                !.libOk = libOk, !.transferred = libOk,
                !.txid = IF libOk THEN "tx" ELSE "None"]
    /\ UNCHANGED <<SESSIONS, vaults, folders, overlapped, issued, revoked>>
    /\ UNCHANGED respLocals

\* The steps that read or write _SESSIONS, with whatever vaults are on
\* disk: login, logout and the three authenticated routes
SessionNext ==
    \/ LoginCall \/ LoginReturn \/ Logout
    \/ BalanceCall \/ BalanceReturn \/ AddressCall \/ AddressReturn
    \/ SendCall \/ SendBody \/ SendReturn
    \/ Reply

SessionSpec == HttpInit /\ [][SessionNext]_vars

\* The wallet lifecycle of IotaWallet.py: the functions that write vaults
\* (behind /api/create and /api/recover, and the helper CreateWalletTest)
\* and the sign-in that opens them
VaultNext ==
    \/ LoginCall \/ LoginReturn
    \/ RecoverCall \/ RecoverStore \/ RecoverReturn
    \/ CreateCall \/ CreateStore \/ CreateReturn
    \/ CreateWalletTestCall \/ CreateWalletTestOpened
    \/ CreateWalletTestStore \/ CreateWalletTestReturn
    \/ Reply

VaultSpec == HttpInit /\ [][VaultNext]_vars

\* The routes of the server, all of them
HttpNext ==
    \/ LoginCall \/ LoginReturn \/ Logout
    \/ BalanceCall \/ BalanceReturn \/ AddressCall \/ AddressReturn
    \/ SendCall \/ SendBody \/ SendReturn
    \/ RecoverCall \/ RecoverStore \/ RecoverReturn
    \/ CreateCall \/ CreateStore \/ CreateReturn
    \/ Reply

HttpSpec == HttpInit /\ [][HttpNext]_vars

-----------------------------------------------------------------------------
(* Schedule construction on its own: lines 679-685 for a wider range of    *)
(* targets and chunk counts, nothing else running.                        *)

SchedInit ==
    /\ max_amount_received = FZero
    /\ max_response_amount \in { FromGrid(n) : n \in 1..MaxScheduleTarget }
    /\ divisor \in 1..MaxScheduleDivisor
    /\ received_token_id = NoToken
    /\ response_token_id = NoToken
    /\ ledger = 0
    /\ starting_balance = FZero
    /\ total_received = FZero
    /\ total_responded = FZero
    /\ response_amounts = <<>>
    /\ idx = 0
    /\ net_increment = FZero
    /\ pc = "start"
    /\ transfers = <<>>
    /\ fresh = FALSE
    /\ receiptPolls = 0
    /\ selfPaid = FALSE
    /\ last = NoCycle
    /\ HttpIdle

SchedNext == Start

SchedSpec == SchedInit /\ [][SchedNext]_vars

-----------------------------------------------------------------------------
(* The responder called with a dust target: the same loop, started with a  *)
(* max_response_amount of a few 1e-8 and up to MaxDustDivisor chunks.      *)

DustInit ==
    /\ max_amount_received \in { FromInt(k) : k \in 0..MaxCap }
    /\ max_response_amount \in { FromGrid(n) : n \in 1..MaxDustTarget }
    /\ divisor \in 1..MaxDustDivisor
    /\ received_token_id = NoToken
    /\ response_token_id \in TokenIds
    /\ ledger \in 0..MaxStart
    /\ starting_balance = FZero
    /\ total_received = FZero
    /\ total_responded = FZero
    /\ response_amounts = <<>>
    /\ idx = 0
    /\ net_increment = FZero
    /\ pc = "start"
    /\ transfers = <<>>
    /\ fresh = FALSE
    /\ receiptPolls = 0
    /\ selfPaid = FALSE
    /\ last = NoCycle
    /\ HttpIdle

DustSpec == DustInit /\ [][Next]_vars

-----------------------------------------------------------------------------
(* Claims about the responder *)

\* C1: once a poll cycle has ended with total_received >= max_amount_received
\* the loop has exited, and from any state between cycles with
\* total_received >= max_amount_received no step polls the balance or
\* dispatches a chunk.
C1_CapTermination ==
    /\ []((last.polled /\ pc # "send"
           /\ FLe(max_amount_received, total_received)) => pc = "done")
    /\ [][(pc # "send" /\ FLe(max_amount_received, total_received))
            => /\ last'.tick = last.tick
               /\ transfers' = transfers
               /\ idx' = idx]_vars

\* the cap was reached by a poll cycle while unsent chunks remained
C1_Witness ==
    /\ pc = "done"
    /\ last.polled
    /\ FLt(FZero, max_amount_received)
    /\ FLe(max_amount_received, total_received)
    /\ idx < divisor

\* C2: once every chunk has been dispatched (idx = divisor) the loop
\* terminates, whatever the balance does afterwards.
C2_ScheduleExhaustion == (pc = "loop" /\ idx = divisor) ~> (pc = "done")

\* C3: a poll cycle dispatches a chunk or changes total_received only if
\* its net increment is > 0; a cycle with net increment <= 0 leaves
\* total_received, total_responded and idx unchanged.
C3_DispatchGuard ==
    /\ [](pc = "send" => FLt(FZero, net_increment))
    /\ [][last'.tick # last.tick
            => /\ total_received' # total_received => FLt(FZero, net_increment')
               /\ FLe(net_increment', FZero)
                    => (total_received' = total_received /\ pc' # "send")]_vars

\* C4: at the poll that follows a payout made in the watched asset, with no
\* external payment in between and both balance reads good, the net
\* increment is 0.
C4_SelfPaymentFiltered ==
    (last.polled /\ last.afterSelfPay /\ last.readOk /\ ~last.ext)
        => net_increment = FZero

\* C5: the number of chunks dispatched never exceeds the number of poll
\* cycles that saw an external payment arrive since the previous poll.
C5_OneChunkPerReceipt == Len(transfers) <= receiptPolls

\* C6: a cycle in which the transfer of the chunk failed inside the wallet
\* library leaves total_responded and idx unchanged and the loop running.
C6_DispatchFailure ==
    [][(Len(transfers') = Len(transfers) + 1
        /\ ~transfers'[Len(transfers')].ok)
        => /\ total_responded' = total_responded
           /\ idx' = idx
           /\ pc' = "loop"]_vars

\* C7: the schedule built at responder start has divisor entries and sums
\* exactly to max_response_amount.
C7_ScheduleSum ==
    pc # "start" =>
        /\ Len(response_amounts) = divisor
        /\ FSum(response_amounts) = max_response_amount

-----------------------------------------------------------------------------
(* Claims about the HTTP layer *)

AuthRoutes == {"balance", "address", "send"}

\* C8: a /api/send request in which the wallet library failed to perform
\* the transfer ends in status 500, and a success response is only given
\* for a transfer that happened.
C8_SendFailureReported ==
    (response.route = "send" /\ "send_transaction" \in response.calls)
        => /\ ~response.libOk => response.status = 500
           /\ response.status = 200 => response.transferred

\* how many requests to the authenticated routes are served under token t
CallsUnder(calls, t) ==
    CallsIn(calls, { c \in DOMAIN calls :
                        c.fn \in AuthRoutes /\ c.token = t })

CarriedToken(value) ==
    LET words == split(SubSeq(value, Len(BearerPrefix) + 1, Len(value)))
    IN  IF words = <<>> THEN <<>> ELSE words[1]

BadHeader(h, sessions) ==
    \/ ~h.present
    \/ ~StartsWith(h.value, BearerPrefix)
    \/ CarriedToken(h.value) = <<>>
    \/ CarriedToken(h.value) \notin DOMAIN sessions

\* C10: a request to /api/balance, /api/address or /api/send whose
\* Authorization header is absent, does not start with 'Bearer ', carries
\* an empty token or carries a token that is not in the session map is
\* answered 401 and calls no wallet-library function.
\* The header is judged where _auth reads it, against the session map of
\* that moment: the request is answered there and then with a 401, and no
\* request is let through to its handler under a token the map does not
\* hold.
C10_UnauthorizedOnBadToken ==
    [][/\ \A t \in Tokens :
            CallsUnder(inflight', t) > CallsUnder(inflight, t)
                => t \in DOMAIN SESSIONS
       /\ (/\ response' # response
           /\ response'.route \in AuthRoutes
           /\ inflight' = inflight
           /\ BadHeader(response'.auth, SESSIONS))
                => (response'.status = 401 /\ response'.calls = {})]_vars

-----------------------------------------------------------------------------
(* Claims about the HTTP routes, continued *)

\* C11: with a valid session, POST /api/send invokes send_transaction only
\* if amount > 0 and the recipient is smr1 followed by exactly 59 characters
\* of the bech32 charset; a request with amount <= 0 or any other recipient
\* ends in a 400 without any call into the wallet library.
C11_SendInputValidation ==
    (response.route = "send" /\ response.status \in {200, 400})
        => /\ ("send_transaction" \in response.calls
                => (response.amount > 0 /\ AddrPattern(response.recipient)))
           /\ (response.amount <= 0 \/ ~AddrPattern(response.recipient))
                => (response.status = 400 /\ response.calls = {})

\* C12: a token is in the session map if and only if a successful login
\* issued it and no logout has removed it since; a login that fails adds no
\* session, a successful login adds exactly one session under a token that
\* is not live and leaves every other session as it was, and a logout
\* removes at most the session of the token it presents.
C12_SessionLifecycle ==
    /\ [](DOMAIN SESSIONS = issued \ revoked)
    /\ [][/\ issued' = issued => DOMAIN SESSIONS' \subseteq DOMAIN SESSIONS
          /\ issued' # issued
                => /\ response'.route = "login" /\ response'.status = 200
                   /\ response'.token \notin DOMAIN SESSIONS
                   /\ DOMAIN SESSIONS' = DOMAIN SESSIONS \cup {response'.token}
          /\ (response'.route = "login" /\ response'.status # 200)
                => SESSIONS' = SESSIONS
          /\ DOMAIN SESSIONS' # DOMAIN SESSIONS \cup DOMAIN SESSIONS'
                => /\ response'.route = "logout"
                   /\ DOMAIN SESSIONS \ DOMAIN SESSIONS' = {response'.token}
          /\ \A t \in DOMAIN SESSIONS \cap DOMAIN SESSIONS' :
                SESSIONS'[t] = SESSIONS[t]]_vars

\* a logout has just removed one session while another one stays live
C12_Witness ==
    /\ response.route = "logout"
    /\ response.token \in revoked
    /\ response.token \notin DOMAIN SESSIONS
    /\ DOMAIN SESSIONS # {}

\* C13: for a valid session, the 'available' value GET /api/balance returns
\* is the integer micro-unit amount parse_available_balance extracts from
\* the wallet's balance object, with no further rescaling.
C13_BalanceUnits ==
    (response.route = "balance" /\ response.status = 200)
        => response.available = response.amount

\* C15: for any sequence of CreateWallet, RecoverWallet and SignInToAccount
\* calls, made one after another: no step removes a vault, and no step
\* changes a vault that exists; called on a name whose vault exists,
\* CreateWallet returns None and RecoverWallet returns False and the vaults
\* stay as they were; called on a name without a vault, SignInToAccount
\* returns (None, None), and no sign-in writes a vault.
C15_VaultLifecycle ==
    [][/\ \A n \in DOMAIN vaults : n \in DOMAIN vaults'
       /\ ~overlapped'
            => \A n \in DOMAIN vaults : vaults'[n] = vaults[n]
       /\ response' # response
            => /\ (response'.route = "create" /\ response'.existed)
                    => (response'.ret = "None" /\ vaults' = vaults)
               /\ (response'.route = "recover" /\ response'.existed)
                    => (response'.ret = "False" /\ vaults' = vaults)
               /\ (response'.route = "login" /\ ~response'.existed)
                    => response'.ret = "None"
               /\ response'.route = "login" => vaults' = vaults]_vars

\* CreateWallet has been called on a name whose vault RecoverWallet made
\* earlier, no two calls ever overlapping, has returned None, and the
\* recovered vault is still there as it was written
C15_Witness ==
    /\ ~overlapped
    /\ response.route = "create"
    /\ response.ret = "None"
    /\ response.existed
    /\ response.name \in DOMAIN vaults
    /\ vaults[response.name] = [kind |-> "recovered", version |-> 1]

-----------------------------------------------------------------------------
(* Claims about the responder, continued *)

\* C14: every poll cycle computes net = current_balance - (starting_balance
\* + total_received - total_responded) from the values held when the cycle
\* starts; starting_balance = 100, total_received = 20, total_responded = 15
\* and current_balance = 112 give net = 7.
C14_NetIncrementFormula ==
    /\ [](NetIncrement(FromInt(112), FromInt(100), FromInt(20), FromInt(15))
            = FromInt(7))
    /\ [][last'.tick # last.tick
            => net_increment' =
                 FSub(get_available_balances(last'.readOk, ledger),
                      FSub(FAdd(starting_balance, total_received),
                           total_responded))]_vars

\* a cycle that started with receipts and payouts on the books, on a wallet
\* that held funds at the start, has computed a positive net increment
C14_Witness ==
    /\ last.polled
    /\ last.readOk
    /\ FLt(FZero, net_increment)
    /\ FLt(FZero, starting_balance)
    /\ FLt(net_increment, total_received)
    /\ FLt(FZero, total_responded)
    /\ idx >= 2

\* C16: in every state of the responder loop 0 <= idx <= divisor, one
\* transfer has been handed out per schedule entry below idx, in schedule
\* order, total_responded is the sum of the first idx schedule entries and
\* does not exceed max_response_amount; a step dispatches at most one chunk,
\* the one at idx, and only in a poll cycle that entered the branch.
C16_PayoutInvariant ==
    /\ [](pc # "start"
            => /\ 0 <= idx /\ idx <= divisor
               /\ Len(transfers) = idx
               /\ \A i \in 1..idx :
                    transfers[i].amount = ToMicros(response_amounts[i])
               /\ total_responded = FSum(SubSeq(response_amounts, 1, idx))
               /\ FLe(total_responded, max_response_amount))
    /\ [][/\ idx' \in {idx, idx + 1}
          /\ idx' = idx + 1
                => /\ pc = "send" /\ last.sent
                   /\ Len(transfers') = idx + 1
                   /\ SubSeq(transfers', 1, idx) = transfers
                   /\ total_responded' =
                        FAdd(total_responded, response_amounts[idx + 1])
          /\ idx' = idx
                => (transfers' = transfers
                    /\ total_responded' = total_responded)
          /\ last'.tick # last.tick => pc # "send"]_vars

\* C17: total_received is 0 when the loop starts, is never negative and
\* never decreases from one step to the next, whatever balances the poll
\* cycles observe (a first balance below starting_balance included).
C17_ReceivedMonotone ==
    /\ [](pc = "start" => total_received = FZero)
    /\ [](~total_received.neg)
    /\ [][FLe(total_received, total_received')]_vars

RECURSIVE HandedFrom(_)
HandedFrom(i) ==
    IF i > Len(transfers) THEN 0 ELSE transfers[i].amount + HandedFrom(i + 1)

\* the integer amounts handed to the transfer call so far
HandedMicros == HandedFrom(1)

\* C18: once the whole schedule has been dispatched, the integer amounts
\* handed to the transfer call, int(chunk * 1_000_000) per chunk, add up to
\* max_response_amount * 1_000_000, for every max_response_amount that is a
\* whole number m of micro-units and every divisor.
C18_MicroPayoutTotal ==
    \A m \in 1..MaxTargetMicros :
        (pc # "start" /\ idx = divisor
         /\ max_response_amount = FromGrid(m * GridPerMicro))
            => HandedMicros = m

=============================================================================
